---- MODULE Spec2Model ----
(***************************************************************************)
(* Model of src/server.py: the relay between a client and the IBM          *)
(* watsonx Orchestrate service.  One inbound request is followed from its  *)
(* arrival to its response; the outbound calls it makes and the replies    *)
(* the upstream gives are recorded in order.                               *)
(*                                                                         *)
(* JSON values are tagged pairs <<tag, value>>, read with Tag and Val:      *)
(*   null   <<"null", <<>> >>                                              *)
(*   string <<"str",  sequence of characters / lexical tokens>>            *)
(*   list   <<"list", sequence of JSON values>>                            *)
(*   object <<"obj",  sequence of <<key, JSON value>> pairs>>              *)
(* A Python exception raised inside an expression is the value Raise.      *)
(***************************************************************************)
EXTENDS Integers, Sequences, FiniteSets, TLC

VARIABLES IBM_API_KEY, pc, req, calls, replies, resp

vars == <<IBM_API_KEY, pc, req, calls, replies, resp>>

(* ----------------------------- bounds --------------------------------- *)
MaxSteps == 2
MaxDetails == 2

(* --------------------------- JSON values ------------------------------ *)
Tag(x) == x[1]
Val(x) == x[2]

Null == <<"null", <<>>>>
Raise == <<"raise", <<>>>>
Str(s) == <<"str", s>>
List(l) == <<"list", l>>
Obj(kv) == <<"obj", kv>>
Text(w) == Str(<<w>>)
EmptyStr == Str(<<>>)

HasKey(o, k) == \E i \in 1..Len(Val(o)) : Val(o)[i][1] = k

Lookup(o, k) == Val(o)[CHOOSE i \in 1..Len(Val(o)) : Val(o)[i][1] = k /\ \A j \in (i+1)..Len(Val(o)) : Val(o)[j][1] # k][2]

\* dict.get(k, d): AttributeError on anything that is not a dict
PyGet(x, k, d) ==
    IF Tag(x) = "raise" THEN Raise
    ELSE IF Tag(x) # "obj" THEN Raise
    ELSE IF HasKey(x, k) THEN Lookup(x, k)
    ELSE d

\* Python truthiness of a JSON value
Truthy(x) == Tag(x) \notin {"null", "raise"} /\ Len(Val(x)) > 0

\* a or b, where b is evaluated only when a is falsy
PyOr(a, b) == IF Tag(a) = "raise" THEN Raise ELSE IF Truthy(a) THEN a ELSE b

(* ------------------------- thread_id pattern -------------------------- *)
UuidLen == 36

HexOrHyphen == {"0","1","2","3","4","5","6","7","8","9",
                "a","b","c","d","e","f","A","B","C","D","E","F","-"}

\* re.match(r'^[0-9a-fA-F-]{36}$', s): without re.MULTILINE, $ matches at the
\* end of the string and also just before a newline that ends the string.
ReMatchUuid(s) ==
    /\ Len(s) >= UuidLen
    /\ \A i \in 1..UuidLen : s[i] \in HexOrHyphen
    /\ \/ Len(s) = UuidLen
       \/ Len(s) = UuidLen + 1 /\ s[UuidLen + 1] = "\n"

\* request_data.thread_id and re.match(...)
ThreadIdAccepted(tid) == Truthy(tid) /\ ReMatchUuid(Val(tid))

Rep(c, n) == [i \in 1..n |-> c]

UuidShaped == Rep("3", 8) \o <<"-">> \o Rep("f", 4) \o <<"-">> \o Rep("4", 4)
              \o <<"-">> \o Rep("A", 4) \o <<"-">> \o Rep("b", 12)

ThreadStrings ==
    { <<>>,
      UuidShaped,
      Rep("-", UuidLen),
      Rep("a", UuidLen - 1),
      Rep("a", UuidLen + 1),
      Rep("a", UuidLen - 1) \o <<"g">>,
      Rep("a", UuidLen - 1) \o <<"\n">>,
      Rep("a", UuidLen) \o <<"\n">>,
      Rep("a", UuidLen) \o <<"\n", "\n">>,
      Rep("a", UuidLen) \o <<" ">>,
      <<"\n">> \o Rep("a", UuidLen),
      <<"n","o","t","-","a","-","u","u","i","d">> }

\* Optional[str]: absent is None
ThreadIds == {Null} \cup {Str(s) : s \in ThreadStrings}

(* --------------------------- upstream replies ------------------------- *)
Http(code, json) == [kind |-> "http", code |-> code, json |-> json]
TransportError == [kind |-> "transport_error", code |-> 0, json |-> Null]

Is2xx(r) == r.kind = "http" /\ r.code >= 200 /\ r.code <= 299

\* a handler that never looks at the status of a reply
RaisesForStatus_Never(r) == FALSE

\* response.raise_for_status(), reached only when the call returned a response
RaisesForStatus(r) == ~Is2xx(r)

ErrorBodies == {Obj(<< <<"error", Text("upstream said no")>> >>)}

TokenReplies ==
    { Http(200, Obj(<< <<"access_token", Text("tok")>> >>)),
      Http(200, Obj(<<>>)),
      Http(200, List(<<>>)),
      TransportError }
    \cup { Http(c, b) : c \in {401, 503}, b \in ErrorBodies }

(* --------------------------- configuration ---------------------------- *)
\* os.getenv('IBM_API_KEY', '').strip(): empty when the variable is not set
ApiKeys == {EmptyStr, Text("secret-key")}
AGENT_ID == Text("agent-1")

(* ------------------------- responses to the client -------------------- *)
NoResponse == [kind |-> "none", code |-> 0, body |-> Null]
JsonResponse(body) == [kind |-> "json", code |-> 200, body |-> body]
HttpException(code, detail) == [kind |-> "http_error", code |-> code, body |-> detail]

\* the two fixed detail strings (Korean in the source), named by what they say
ChatFailedDetail == Text("IBM Orchestrate init failed")
StatusFailedDetail == Text("status lookup failed")

(* --------------------------- outbound calls --------------------------- *)
Call(target, auth, body) == [target |-> target, auth |-> auth, body |-> body]

IamCall(key) ==
    Call("iam", Null,
         Obj(<< <<"grant_type", Text("urn:ibm:params:oauth:grant-type:apikey")>>,
                <<"apikey", key>> >>))

\* get_ibm_token after the POST returned: raise_for_status, then
\* response.json().get("access_token", "")
GetIbmToken(r) ==
    IF r.kind # "http" THEN Raise
    ELSE IF RaisesForStatus(r) THEN Raise
    ELSE PyGet(r.json, "access_token", EmptyStr)

(* ------------------------------ POST /api/chat ------------------------ *)
UserQueries == {Text("find a route")}

ChatPayload(q, tid) ==
    Obj(<< <<"message", Obj(<< <<"role", Text("user")>>, <<"content", q>> >>)>>,
           <<"agent_id", AGENT_ID>>,
           <<"context", Obj(<<>>)>>,
           <<"additional_properties", Obj(<<>>)>> >>
        \o (IF ThreadIdAccepted(tid) THEN << <<"thread_id", tid>> >> ELSE <<>>))

\* the same chain with the first two keys in the other order
ExtractRunId_RunIdFirst(res_json) ==
    PyOr(PyGet(res_json, "run_id", Null),
         PyOr(PyGet(res_json, "id", Null),
              PyGet(PyGet(res_json, "data", Obj(<<>>)), "id", Null)))

\* res_json.get("id") or res_json.get("run_id") or res_json.get("data", {}).get("id")
ExtractRunId(res_json) ==
    PyOr(PyGet(res_json, "id", Null),
         PyOr(PyGet(res_json, "run_id", Null),
              PyGet(PyGet(res_json, "data", Obj(<<>>)), "id", Null)))

ChatResult(r) ==
    IF r.kind # "http" THEN HttpException(500, ChatFailedDetail)
    ELSE IF RaisesForStatus(r) THEN HttpException(500, ChatFailedDetail)
    ELSE LET run_id == ExtractRunId(r.json)
             thread_id == PyGet(r.json, "thread_id", Null)
         IN  IF Tag(run_id) = "raise" \/ Tag(thread_id) = "raise"
             THEN HttpException(500, ChatFailedDetail)
             ELSE JsonResponse(Obj(<< <<"status", Text("success")>>,
                                      <<"run_id", run_id>>,
                                      <<"thread_id", thread_id>> >>))

Absent == <<"absent", <<>>>>
Field(k, x) == IF Tag(x) = "absent" THEN <<>> ELSE << <<k, x>> >>

RunCreateBodies ==
    { Obj(Field("id", a) \o Field("run_id", b) \o Field("data", c) \o Field("thread_id", d)) :
        a \in {Absent, Null, EmptyStr, Text("run-1")},
        b \in {Absent, EmptyStr, Text("run-2")},
        c \in {Absent, Null, Obj(<<>>), Obj(<< <<"id", Null>> >>), Obj(<< <<"id", Text("run-3")>> >>)},
        d \in {Absent, Text("thread-9")} }
    \cup { List(<<>>) }

RunCreateReplies ==
    { Http(200, b) : b \in RunCreateBodies }
    \cup { Http(c, b) : c \in {404, 503}, b \in ErrorBodies }
    \cup { TransportError }

(* ---------------------- json.loads on lexical tokens ------------------- *)
\* A string that carries serialised JSON is a sequence of lexical tokens:
\* the six punctuation marks, the literal null, and string literals.
Punct == {"{", "}", "[", "]", ":", ","}

ParseFail == [ok |-> FALSE, val |-> Null, next |-> 0]
ParseOk(val, next) == [ok |-> TRUE, val |-> val, next |-> next]

RECURSIVE ParseValue(_, _), ParseMembers(_, _, _), ParseElements(_, _, _)

ParseValue(s, i) ==
    IF i > Len(s) THEN ParseFail
    ELSE IF s[i] = "{"
         THEN IF i + 1 <= Len(s) /\ s[i + 1] = "}"
              THEN ParseOk(Obj(<<>>), i + 2)
              ELSE ParseMembers(s, i + 1, <<>>)
    ELSE IF s[i] = "["
         THEN IF i + 1 <= Len(s) /\ s[i + 1] = "]"
              THEN ParseOk(List(<<>>), i + 2)
              ELSE ParseElements(s, i + 1, <<>>)
    ELSE IF s[i] = "null" THEN ParseOk(Null, i + 1)
    ELSE IF s[i] \in Punct THEN ParseFail
    ELSE ParseOk(Text(s[i]), i + 1)

ParseMembers(s, i, acc) ==
    IF i + 1 > Len(s) THEN ParseFail
    ELSE IF s[i] \in Punct \cup {"null"} \/ s[i + 1] # ":" THEN ParseFail
    ELSE LET r == ParseValue(s, i + 2)
         IN  IF ~r.ok \/ r.next > Len(s) THEN ParseFail
             ELSE IF s[r.next] = "," THEN ParseMembers(s, r.next + 1, Append(acc, <<s[i], r.val>>))
             ELSE IF s[r.next] = "}" THEN ParseOk(Obj(Append(acc, <<s[i], r.val>>)), r.next + 1)
             ELSE ParseFail

ParseElements(s, i, acc) ==
    LET r == ParseValue(s, i)
    IN  IF ~r.ok \/ r.next > Len(s) THEN ParseFail
        ELSE IF s[r.next] = "," THEN ParseElements(s, r.next + 1, Append(acc, r.val))
        ELSE IF s[r.next] = "]" THEN ParseOk(List(Append(acc, r.val)), r.next + 1)
        ELSE ParseFail

\* json.loads(x): TypeError unless x is a string, JSONDecodeError unless the
\* whole string is one JSON value
JsonLoads(x) ==
    IF Tag(x) # "str" THEN Raise
    ELSE LET r == ParseValue(Val(x), 1)
         IN  IF r.ok /\ r.next = Len(Val(x)) + 1 THEN r.val ELSE Raise

(* -------------------- GET /api/chat/status/{run_id} ------------------- *)
\* the guard without its comparison with "null"
InvalidRunId_EmptyOnly(run_id) == ~Truthy(run_id)

\* not run_id or run_id == "null"
InvalidRunId(run_id) == ~Truthy(run_id) \/ (Tag(run_id) = "str" /\ Val(run_id) = <<"null">>)

\* x == "literal" for a JSON value x
IsText(x, w) == Tag(x) = "str" /\ Val(x) = <<w>>

\* raw_data.get("result", {}).get("data", {}).get("message", {})
MessageOf(raw_data) ==
    PyGet(PyGet(PyGet(raw_data, "result", Obj(<<>>)), "data", Obj(<<>>)), "message", Obj(<<>>))

\* content[0]: the first element of a list, the first character of a string,
\* KeyError on a dict
PyFirst(x) ==
    IF Tag(x) = "list" THEN Val(x)[1]
    ELSE IF Tag(x) = "str" THEN Text(Val(x)[1])
    ELSE Raise

\* lines 132-134; the caller has set answer_text = ""
AnswerText(raw_data) ==
    LET content == PyGet(MessageOf(raw_data), "content", List(<<>>))
    IN  IF Tag(content) = "raise" THEN Raise
        ELSE IF ~Truthy(content) THEN EmptyStr
        ELSE PyGet(PyFirst(content), "text", EmptyStr)

\* "for x in c": TypeError on None; a string yields its characters, a dict its keys
Iterable(x) == Tag(x) \in {"list", "str", "obj"}
Items(x) ==
    IF Tag(x) = "list" THEN Val(x)
    ELSE IF Tag(x) = "str" THEN [i \in 1..Len(Val(x)) |-> Text(Val(x)[i])]
    ELSE [i \in 1..Len(Val(x)) |-> Text(Val(x)[i][1])]

\* "tripPatterns" in c: substring of a string, element of a list, key of a dict,
\* TypeError on None.  The value is "yes", "no" or "raise".
ContainsTripPatterns(c) ==
    IF Tag(c) = "str" THEN (IF \E i \in 1..Len(Val(c)) : Val(c)[i] = "tripPatterns" THEN "yes" ELSE "no")
    ELSE IF Tag(c) = "list" THEN (IF \E i \in 1..Len(Val(c)) : IsText(Val(c)[i], "tripPatterns") THEN "yes" ELSE "no")
    ELSE IF Tag(c) = "obj" THEN (IF HasKey(c, "tripPatterns") THEN "yes" ELSE "no")
    ELSE "raise"

\* parsed_inner.get("data", {}).get("trip", {}).get("tripPatterns", [])
TripPatternsOf(parsed_inner) ==
    PyGet(PyGet(PyGet(parsed_inner, "data", Obj(<<>>)), "trip", Obj(<<>>)), "tripPatterns", List(<<>>))

Scanned(it, raised) == [it |-> it, raised |-> raised]

\* the body of the inner loop (lines 141-147) for one detail; it is the value
\* of itineraries before the detail
ScanDetail(detail, it) ==
    LET ty == PyGet(detail, "type", Null)
    IN  IF Tag(ty) = "raise" THEN Scanned(it, TRUE)
        ELSE IF ~IsText(ty, "tool_response") THEN Scanned(it, FALSE)
        ELSE LET content_str == PyGet(detail, "content", EmptyStr)
                 has == ContainsTripPatterns(content_str)
             IN  IF has = "raise" THEN Scanned(it, TRUE)
                 ELSE IF has = "no" THEN Scanned(it, FALSE)
                 ELSE LET found == TripPatternsOf(JsonLoads(content_str))
                      IN  IF Tag(found) = "raise" THEN Scanned(it, TRUE)
                          ELSE Scanned(found, FALSE)

RECURSIVE ScanDetails(_, _, _)
ScanDetails(details, i, it) ==
    IF i > Len(details) THEN Scanned(it, FALSE)
    ELSE LET r == ScanDetail(details[i], it)
         IN  IF r.raised THEN r ELSE ScanDetails(details, i + 1, r.it)

\* the outer loop (lines 139-140) from step i on
RECURSIVE ScanSteps(_, _, _)
ScanSteps(steps, i, it) ==
    IF i > Len(steps) THEN Scanned(it, FALSE)
    ELSE LET details == PyGet(steps[i], "step_details", List(<<>>))
         IN  IF Tag(details) = "raise" \/ ~Iterable(details) THEN Scanned(it, TRUE)
             ELSE LET r == ScanDetails(Items(details), 1, it)
                  IN  IF r.raised THEN r ELSE ScanSteps(steps, i + 1, r.it)

\* lines 137-149: the try block and its except, which only logs
ScanHistory(raw_data) ==
    LET history == PyGet(MessageOf(raw_data), "step_history", List(<<>>))
    IN  IF Tag(history) = "raise" \/ ~Iterable(history) THEN Scanned(List(<<>>), TRUE)
        ELSE ScanSteps(Items(history), 1, List(<<>>))

StatusBody(run_status, answer_text, itineraries) ==
    Obj(<< <<"status", run_status>>, <<"answer", answer_text>>, <<"itineraries", itineraries>> >>)

\* lines 122-158 once the status call returned
StatusResult(r) ==
    IF r.kind # "http" THEN HttpException(500, StatusFailedDetail)
    ELSE IF RaisesForStatus(r) THEN HttpException(500, StatusFailedDetail)
    ELSE LET run_status == PyGet(r.json, "status", Null)
         IN  IF Tag(run_status) = "raise" THEN HttpException(500, StatusFailedDetail)
             ELSE IF ~IsText(run_status, "completed")
                  THEN JsonResponse(StatusBody(run_status, EmptyStr, List(<<>>)))
             ELSE LET answer_text == AnswerText(r.json)
                  IN  IF Tag(answer_text) = "raise" THEN HttpException(500, StatusFailedDetail)
                      ELSE JsonResponse(StatusBody(run_status, answer_text, ScanHistory(r.json).it))

InvalidRunIdBody == Obj(<< <<"status", Text("error")>>, <<"message", Text("Invalid run_id")>> >>)

RunIds == {EmptyStr, Text("null"), Text("run-1"), Text("NULL")}

(* ------------------------- status payloads ---------------------------- *)
TripJson(arr) ==
    <<"{", "data", ":", "{", "trip", ":", "{", "tripPatterns", ":">> \o arr \o <<"}", "}", "}">>

PatternsA == <<"[", "p1", "]">>
PatternsB == <<"[", "p2", ",", "p3", "]">>

Detail(ty, content) == Obj(<< <<"type", Text(ty)>> >> \o Field("content", content))

GoodA == Detail("tool_response", Str(TripJson(PatternsA)))
GoodB == Detail("tool_response", Str(TripJson(PatternsB)))
Truncated == Detail("tool_response", Str(SubSeq(TripJson(PatternsA), 1, 11)))
NullPatterns == Detail("tool_response", Str(TripJson(<<"null">>)))
NullContent == Detail("tool_response", Null)
OtherTool == Detail("tool_response", Str(<<"{", "weather", ":", "sunny", "}">>))
ToolCall == Detail("tool_call", Str(<<"{", "name", ":", "tripPatterns", "}">>))

DetailKinds == {GoodA, GoodB, Truncated, NullPatterns, NullContent, OtherTool, ToolCall}

Step(details) == Obj(<< <<"step_details", List(details)>> >>)

RECURSIVE SeqsOfLen(_, _)
SeqsOfLen(S, k) == IF k = 0 THEN {<<>>} ELSE {Append(q, x) : q \in SeqsOfLen(S, k - 1), x \in S}

\* the step histories of at most s steps and n details in all
RECURSIVE HistSet(_, _)
HistSet(s, n) ==
    IF s = 0 THEN {<<>>}
    ELSE {<<>>} \cup UNION { { <<Step(d)>> \o h : d \in SeqsOfLen(DetailKinds, k), h \in HistSet(s - 1, n - k) } : k \in 0..n }

Block(text) == Obj(Field("text", text))
GoodContent == List(<<Block(Text("Take tram 12")), Block(Text("second block"))>>)

ContentVariants ==
    { Absent, Null, List(<<>>), GoodContent, List(<<Block(Absent)>>), List(<<Block(Null)>>),
      List(<<Text("raw")>>), Text("plain"), Obj(<< <<"text", Text("x")>> >>) }

OddHistories ==
    { Absent, Null, List(<<>>), List(<<Step(<<GoodA>>)>>), List(<<Obj(<<>>), Step(<<GoodB>>)>>),
      List(<<Step(<<GoodA>>), Obj(<< <<"step_details", Null>> >>), Step(<<GoodB>>)>>),
      List(<<Step(<<GoodA>>), Null, Step(<<GoodB>>)>>),
      List(<<Step(<<Detail("tool_response", Str(<<"[", "tripPatterns", "]">>))>>)>>),
      List(<<Step(<<Detail("tool_response",
                           Str(<<"{", "data", ":", "{", "trip", ":", "null", "}", ",",
                                 "note", ":", "tripPatterns", "}">>))>>)>>),
      List(<<Step(<<Detail("tool_response", Str(<<"{", "tripPatterns", ":", "[", "p1", "]", "}">>))>>)>>) }

Message(content, history) == Obj(Field("content", content) \o Field("step_history", history))
Payload(status, result) == Obj(Field("status", status) \o Field("result", result))
ResultOf(message) == Obj(<< <<"data", Obj(Field("message", message))>> >>)

ResultVariants ==
    { Absent, Null, Text("gone"), Obj(<<>>), Obj(<< <<"data", Null>> >>),
      Obj(<< <<"data", Obj(<<>>)>> >>), ResultOf(Null), ResultOf(List(<<>>)) }

StatusBodies ==
    { Payload(Text("completed"), ResultOf(Message(GoodContent, List(h)))) : h \in HistSet(MaxSteps, MaxDetails) }
    \cup { Payload(Text("completed"), ResultOf(Message(c, h))) : c \in ContentVariants, h \in OddHistories }
    \cup { Payload(Text("completed"), x) : x \in ResultVariants }
    \cup { Payload(st, x) : st \in {Absent, Null, Text("running"), Text("failed")},
                            x \in {Absent, Null, ResultOf(Message(GoodContent, List(<<Step(<<GoodA>>)>>)))} }
    \cup { List(<<>>) }

StatusReplies ==
    { Http(200, b) : b \in StatusBodies }
    \cup { Http(c, b) : c \in {404, 503}, b \in ErrorBodies }
    \cup { TransportError }

NoRequest == [endpoint |-> "none", user_query |-> Null, thread_id |-> Null, run_id |-> Null]

Init ==
    /\ IBM_API_KEY \in ApiKeys
    /\ pc = "idle"
    /\ req = NoRequest
    /\ calls = <<>>
    /\ replies = <<>>
    /\ resp = NoResponse

\* chat_with_agent up to its first await: get_ibm_token posts to the IAM endpoint
ChatBegin(q, tid) ==
    /\ pc = "idle"
    /\ req' = [endpoint |-> "chat", user_query |-> q, thread_id |-> tid, run_id |-> Null]
    /\ calls' = Append(calls, IamCall(IBM_API_KEY))
    /\ pc' = "chat_token"
    /\ UNCHANGED <<IBM_API_KEY, replies, resp>>

\* the IAM call returns: either the handler fails, or it posts the run
ChatTokenReply(r) ==
    /\ pc = "chat_token"
    /\ replies' = Append(replies, r)
    /\ LET token == GetIbmToken(r)
       IN  IF Tag(token) = "raise"
           THEN /\ resp' = HttpException(500, ChatFailedDetail)
                /\ pc' = "done"
                /\ UNCHANGED calls
           ELSE /\ calls' = Append(calls, Call("runs", token, ChatPayload(req.user_query, req.thread_id)))
                /\ pc' = "chat_run"
                /\ UNCHANGED resp
    /\ UNCHANGED <<IBM_API_KEY, req>>

\* the run-creation call returns
ChatRunReply(r) ==
    /\ pc = "chat_run"
    /\ replies' = Append(replies, r)
    /\ resp' = ChatResult(r)
    /\ pc' = "done"
    /\ UNCHANGED <<IBM_API_KEY, req, calls>>

\* get_run_status up to its first await, or its early return
StatusBegin(run_id) ==
    /\ pc = "idle"
    /\ req' = [endpoint |-> "status", user_query |-> Null, thread_id |-> Null, run_id |-> run_id]
    /\ IF InvalidRunId(run_id)
       THEN /\ resp' = JsonResponse(InvalidRunIdBody)
            /\ pc' = "done"
            /\ UNCHANGED calls
       ELSE /\ calls' = Append(calls, IamCall(IBM_API_KEY))
            /\ pc' = "status_token"
            /\ UNCHANGED resp
    /\ UNCHANGED <<IBM_API_KEY, replies>>

\* the IAM call returns: either the handler fails, or it gets the run
StatusTokenReply(r) ==
    /\ pc = "status_token"
    /\ replies' = Append(replies, r)
    /\ LET token == GetIbmToken(r)
       IN  IF Tag(token) = "raise"
           THEN /\ resp' = HttpException(500, StatusFailedDetail)
                /\ pc' = "done"
                /\ UNCHANGED calls
           ELSE /\ calls' = Append(calls, Call("run_status", token, req.run_id))
                /\ pc' = "status_run"
                /\ UNCHANGED resp
    /\ UNCHANGED <<IBM_API_KEY, req>>

\* the run-status call returns
StatusRunReply(r) ==
    /\ pc = "status_run"
    /\ replies' = Append(replies, r)
    /\ resp' = StatusResult(r)
    /\ pc' = "done"
    /\ UNCHANGED <<IBM_API_KEY, req, calls>>

\* the response has been sent; the server waits for the next request
NextRequest ==
    /\ pc = "done"
    /\ pc' = "idle"
    /\ req' = NoRequest
    /\ calls' = <<>>
    /\ replies' = <<>>
    /\ resp' = NoResponse
    /\ UNCHANGED IBM_API_KEY

Next ==
    \/ \E q \in UserQueries, tid \in ThreadIds : ChatBegin(q, tid)
    \/ \E r \in TokenReplies : ChatTokenReply(r)
    \/ \E r \in RunCreateReplies : ChatRunReply(r)
    \/ \E run_id \in RunIds : StatusBegin(run_id)
    \/ \E r \in TokenReplies : StatusTokenReply(r)
    \/ \E r \in StatusReplies : StatusRunReply(r)
    \/ NextRequest

Spec == Init /\ [][Next]_vars

(* ====================================================================== *)
(*                               Properties                               *)
(* ====================================================================== *)
ChatDone == pc = "done" /\ req.endpoint = "chat"
StatusDone == pc = "done" /\ req.endpoint = "status"

\* the reply of the orchestration call, once the handler has seen it
OrchReplied == Len(replies) = 2
OrchReply == replies[2]

\* a key of an object, read without Python's defaulting: Absent when the
\* value is no object or has no such key
Member(x, k) == IF Tag(x) = "obj" /\ HasKey(x, k) THEN Lookup(x, k) ELSE Absent

ResponseField(k) == IF resp.kind = "json" THEN Member(resp.body, k) ELSE Absent

(* ------------------------------- C1 ----------------------------------- *)
\* exactly 36 characters, each a hex digit or a hyphen
ExactUuidShape(tid) ==
    /\ Tag(tid) = "str"
    /\ Len(Val(tid)) = UuidLen
    /\ \A i \in 1..Len(Val(tid)) : Val(tid)[i] \in HexOrHyphen

\* C1: the body sent to the run-creation endpoint has a thread_id field only
\* when the supplied thread_id is exactly 36 hex digits and hyphens; for an
\* absent or empty thread_id, or one with extra characters such as a trailing
\* newline, the field is omitted.
C1_ThreadIdOnlyWhenExactlyUuidShaped ==
    \A i \in 1..Len(calls) :
        calls[i].target = "runs" =>
            (HasKey(calls[i].body, "thread_id") <=> ExactUuidShape(req.thread_id))

(* ------------------------------- C2 ----------------------------------- *)
ResJson == OrchReply.json
ChatSucceeded == ChatDone /\ OrchReplied /\ Is2xx(OrchReply) /\ Tag(ResJson) = "obj"
AllThreeIds ==
    /\ HasKey(ResJson, "id")
    /\ HasKey(ResJson, "run_id")
    /\ Tag(Member(ResJson, "data")) = "obj"
    /\ HasKey(Member(ResJson, "data"), "id")
NoneOfThreeIds ==
    /\ ~HasKey(ResJson, "id")
    /\ ~HasKey(ResJson, "run_id")
    /\ ~HasKey(ResJson, "data")
NonEmptyId(x) == Tag(x) \in {"str", "list", "obj"} /\ Val(x) # <<>>

\* C2 as stated: with id, run_id and data.id all present the returned run_id
\* is the value of id, whatever the values are; with none present the handler
\* returns status "success" and a null run_id.
C2_IdWinsWhateverItsValue ==
    ChatSucceeded =>
        /\ AllThreeIds =>
              /\ resp.kind = "json"
              /\ ResponseField("run_id") = Lookup(ResJson, "id")
        /\ NoneOfThreeIds =>
              /\ resp.kind = "json"
              /\ ResponseField("status") = Text("success")
              /\ ResponseField("run_id") = Null

\* C2 amended: the returned run_id is the first of id, run_id, data.id whose
\* value is neither null nor empty, so id wins over run_id and data.id when it
\* is non-empty; data is consulted only when id and run_id are both null,
\* empty or absent, and then the run_id is data.id (null when data or data.id
\* is absent) and a data that is no object is an HTTP 500; with none of the
\* three present the handler returns status "success" and a null run_id.
C2_FirstNonEmptyIdWins ==
    ChatSucceeded =>
        LET id == Member(ResJson, "id")
            run_id == Member(ResJson, "run_id")
            data == Member(ResJson, "data")
        IN  IF NonEmptyId(id)
            THEN resp.kind = "json" /\ ResponseField("run_id") = id
            ELSE IF NonEmptyId(run_id)
            THEN resp.kind = "json" /\ ResponseField("run_id") = run_id
            ELSE IF Tag(data) = "absent"
            THEN /\ resp.kind = "json"
                 /\ ResponseField("status") = Text("success")
                 /\ ResponseField("run_id") = Null
            ELSE IF Tag(data) = "obj"
            THEN /\ resp.kind = "json"
                 /\ ResponseField("run_id") = (IF HasKey(data, "id") THEN Lookup(data, "id") ELSE Null)
            ELSE resp = HttpException(500, ChatFailedDetail)

C2_Witness ==
    /\ ChatSucceeded
    /\ AllThreeIds
    /\ Lookup(ResJson, "id") = Text("run-1")
    /\ Lookup(ResJson, "run_id") = Text("run-2")
    /\ ResponseField("run_id") = Text("run-1")

(* ------------------------------- C3 ----------------------------------- *)
StatusPayload == OrchReply.json
CompletedReply ==
    /\ StatusDone /\ OrchReplied /\ Is2xx(OrchReply)
    /\ IsText(Member(StatusPayload, "status"), "completed")

\* the message of a payload whose result.data.message path is all objects
WellFormedPath(raw) ==
    /\ Tag(Member(raw, "result")) = "obj"
    /\ Tag(Member(Member(raw, "result"), "data")) = "obj"
    /\ Tag(Member(Member(Member(raw, "result"), "data"), "message")) = "obj"
MessageAt(raw) == Member(Member(Member(raw, "result"), "data"), "message")

\* the first content block has a text, which is then the answer
FirstBlockText(raw) == Member(Val(Member(MessageAt(raw), "content"))[1], "text")
HasAnswer(raw) ==
    /\ WellFormedPath(raw)
    /\ Tag(Member(MessageAt(raw), "content")) = "list"
    /\ Val(Member(MessageAt(raw), "content")) # <<>>
    /\ Tag(FirstBlockText(raw)) = "str"

\* the details of a history whose steps all carry a list of details, in scan order
RECURSIVE Flatten(_, _)
Flatten(steps, i) ==
    IF i > Len(steps) THEN <<>>
    ELSE Val(Member(steps[i], "step_details")) \o Flatten(steps, i + 1)

ListOfSteps(raw) ==
    /\ WellFormedPath(raw)
    /\ Tag(Member(MessageAt(raw), "step_history")) = "list"
    /\ \A i \in 1..Len(Val(Member(MessageAt(raw), "step_history"))) :
          Tag(Member(Val(Member(MessageAt(raw), "step_history"))[i], "step_details")) = "list"
DetailsOf(raw) == Flatten(Val(Member(MessageAt(raw), "step_history")), 1)

Matching(detail) ==
    /\ IsText(Member(detail, "type"), "tool_response")
    /\ Tag(Member(detail, "content")) = "str"
    /\ \E i \in 1..Len(Val(Member(detail, "content"))) : Val(Member(detail, "content"))[i] = "tripPatterns"

InnerPatterns(detail) ==
    Member(Member(Member(JsonLoads(Member(detail, "content")), "data"), "trip"), "tripPatterns")
WellFormedMatch(detail) == Tag(InnerPatterns(detail)) = "list"

LastMatch(ds) == ds[CHOOSE i \in 1..Len(ds) : Matching(ds[i]) /\ \A j \in (i + 1)..Len(ds) : ~Matching(ds[j])]

\* C3: when the inner JSON of a matching tool_response is malformed, or any
\* other exception occurs during itinerary extraction, the handler returns
\* the answer of the first content block and itineraries = [], also when an
\* earlier matching tool_response decoded successfully.  The payloads taken
\* are those whose decodable matches all carry a tripPatterns array, so that
\* a failure here is not the null itineraries of C8.
C3_ExtractionFailureYieldsNoItineraries ==
    (/\ CompletedReply /\ HasAnswer(StatusPayload) /\ ListOfSteps(StatusPayload)
     /\ ScanHistory(StatusPayload).raised
     /\ \A i \in 1..Len(DetailsOf(StatusPayload)) :
           (Matching(DetailsOf(StatusPayload)[i]) /\ Tag(JsonLoads(Member(DetailsOf(StatusPayload)[i], "content"))) # "raise")
               => WellFormedMatch(DetailsOf(StatusPayload)[i]))
    => /\ resp.kind = "json"
       /\ ResponseField("answer") = FirstBlockText(StatusPayload)
       /\ ResponseField("itineraries") = List(<<>>)

(* ------------------------------- C4 ----------------------------------- *)
\* C4: when every matching tool_response of a completed payload carries
\* well-formed JSON, the returned itineraries are the data.trip.tripPatterns
\* array of the last matching tool_response in scan order.
C4_LastWellFormedMatchWins ==
    (/\ CompletedReply /\ HasAnswer(StatusPayload) /\ ListOfSteps(StatusPayload)
     /\ \E i \in 1..Len(DetailsOf(StatusPayload)) : Matching(DetailsOf(StatusPayload)[i])
     /\ \A i \in 1..Len(DetailsOf(StatusPayload)) :
           Matching(DetailsOf(StatusPayload)[i]) => WellFormedMatch(DetailsOf(StatusPayload)[i]))
    => /\ resp.kind = "json"
       /\ ResponseField("itineraries") = InnerPatterns(LastMatch(DetailsOf(StatusPayload)))

(* ------------------------------- C5 ----------------------------------- *)
EmptyOrNull(run_id) == run_id = EmptyStr \/ run_id = Text("null")
Targets == [i \in 1..Len(calls) |-> calls[i].target]

\* C5 as stated: an empty or "null" run_id gets the Invalid run_id error
\* without any outbound call; for every other run_id the token request and
\* then the status request are issued.
C5_BothCallsForEveryOtherRunId ==
    StatusDone =>
        IF EmptyOrNull(req.run_id)
        THEN resp = JsonResponse(InvalidRunIdBody) /\ calls = <<>>
        ELSE Targets = <<"iam", "run_status">>

\* C5 amended: an empty or "null" run_id gets the Invalid run_id error without
\* any outbound call; for every other run_id the token request is issued, and
\* the status request for that run_id is issued after it exactly when the
\* token request returned 2xx with a JSON object.
C5_StatusCallOnlyAfterToken ==
    req.endpoint = "status" =>
        IF EmptyOrNull(req.run_id)
        THEN /\ calls = <<>> /\ replies = <<>>
             /\ pc = "done"
             /\ resp = JsonResponse(InvalidRunIdBody)
        ELSE /\ Len(calls) >= 1
             /\ calls[1].target = "iam"
             /\ Len(replies) >= 1 =>
                   IF Is2xx(replies[1]) /\ Tag(replies[1].json) = "obj"
                   THEN /\ Targets = <<"iam", "run_status">>
                        /\ calls[2].body = req.run_id
                   ELSE Targets = <<"iam">> /\ pc = "done"

C5_Witness ==
    /\ StatusDone
    /\ req.run_id = Text("null")
    /\ resp = JsonResponse(InvalidRunIdBody)
    /\ calls = <<>>

(* ------------------------------- C6 ----------------------------------- *)
\* C6: a non-2xx reply of the run-creation or run-status call reaches the
\* client with the upstream's status code and the upstream body as detail;
\* only the other failures become a generic HTTP 500.
C6_UpstreamStatusPropagates ==
    (pc = "done" /\ OrchReplied) =>
        /\ (OrchReply.kind = "http" /\ ~Is2xx(OrchReply)) =>
              /\ resp.kind = "http_error"
              /\ resp.code = OrchReply.code
              /\ resp.body = OrchReply.json
        /\ OrchReply.kind = "transport_error" =>
              /\ resp.kind = "http_error"
              /\ resp.code = 500
              /\ resp.body \in {ChatFailedDetail, StatusFailedDetail}

(* ------------------------------- C7 ----------------------------------- *)
\* C7: with an empty API key no outbound call is made, and the request ends
\* in an error.
C7_EmptyApiKeyMakesNoCall ==
    IBM_API_KEY = EmptyStr =>
        /\ calls = <<>>
        /\ (pc = "done" /\ req.endpoint = "chat") => resp.kind = "http_error"

(* ------------------------------- C8 ----------------------------------- *)
\* C8: in every {status, answer, itineraries} result, itineraries is a list.
C8_ItinerariesIsAList ==
    (StatusDone /\ resp.kind = "json" /\ HasKey(resp.body, "itineraries")) =>
        Tag(ResponseField("itineraries")) = "list"

(* ------------------------------- C9 ----------------------------------- *)
\* result.data.message.content is missing at some level: a key is absent, a
\* value is null, or an intermediate value is no object
ContentMissing(raw) ==
    \/ ~WellFormedPath(raw)
    \/ Tag(Member(MessageAt(raw), "content")) \in {"absent", "null"}

\* C9: for a completed payload the handler never answers with an HTTP 500
\* because of the answer: a missing path or an empty content gives the answer
\* "", otherwise the answer is the text of the first content block.
C9_AnswerExtractionNeverRaises ==
    CompletedReply =>
        /\ resp.kind = "json"
        /\ (ContentMissing(StatusPayload) \/ Member(MessageAt(StatusPayload), "content") = List(<<>>))
              => ResponseField("answer") = EmptyStr
        /\ HasAnswer(StatusPayload) => ResponseField("answer") = FirstBlockText(StatusPayload)

(* ------------------------------- C10 ---------------------------------- *)
Orchestration == {"runs", "run_status"}
RequestAccepted == req.endpoint = "chat" \/ (req.endpoint = "status" /\ ~EmptyOrNull(req.run_id))

\* C10: within one request the token request is the first outbound call and
\* the only one of its kind, the orchestration call is made at most once and
\* only after a 2xx token reply, and a failed outbound call ends the request
\* at once with an error response: no retry, no further call.
C10_CallsOrderedNoRetry ==
    /\ Len(calls) <= 2
    /\ Len(replies) <= Len(calls)
    /\ RequestAccepted => (Len(calls) >= 1 /\ calls[1].target = "iam")
    /\ Len(calls) = 2 =>
          /\ calls[2].target \in Orchestration
          /\ calls[2].target = (IF req.endpoint = "chat" THEN "runs" ELSE "run_status")
          /\ Len(replies) >= 1
          /\ Is2xx(replies[1])
    /\ \A i \in 1..Len(replies) :
          ~Is2xx(replies[i]) =>
              /\ pc = "done"
              /\ resp.kind = "http_error"
              /\ Len(replies) = i
              /\ Len(calls) = i
    /\ pc \in {"chat_token", "status_token"} => Len(calls) = 1 /\ replies = <<>>
    /\ pc \in {"chat_run", "status_run"} => Len(calls) = 2 /\ Len(replies) = 1

C10_Witness ==
    /\ pc = "done"
    /\ Targets = <<"iam", "runs">>
    /\ Len(replies) = 2
    /\ Is2xx(replies[1])
    /\ OrchReply.kind = "http" /\ OrchReply.code = 503
    /\ resp.kind = "http_error"

====
